---- MODULE Spec2Model ----
(***************************************************************************)
(* Model of the Reversi rules engine of src/Reversi/reversi.py.            *)
(*                                                                         *)
(* A Reversi object holds _side, _players, _othello (fixed at              *)
(* construction), the integer ownership grid _grid, the Piece board        *)
(* _board, _turn and _num_moves.  The list-of-lists _grid is a heap object *)
(* that the grid property hands out by reference, so grids live in `heap`  *)
(* and an engine holds a reference to one; the Piece board never leaves    *)
(* the engine and is kept by value.                                        *)
(***************************************************************************)
EXTENDS Integers, Sequences, FiniteSets, TLC

VARIABLES
    cfg,    \* constructor arguments [side, players, othello] of the live game
    heap,   \* grid objects: reference -> contents of a list-of-lists _grid
    game,   \* the live Reversi object
    sim,    \* the object returned by the latest simulate_moves call
    sim2,   \* the object returned by a second simulate_moves call
    snap,   \* the reference a front end got from the grid property
    last,   \* the latest call made on the live game and its arguments
    nops    \* number of calls made so far

vars == <<cfg, heap, game, sim, sim2, snap, last, nops>>

(***************************************************************************)
(* Bounds of the model.                                                    *)
(***************************************************************************)
\* moves applied in a game played from construction
MaxMoves == 8
\* calls made in the runs that mix apply_move with the other operations
MaxOps == 3
\* calls made in the runs that mix apply_move with simulate_moves
MaxSimOps == 3
\* length of a move list handed to simulate_moves
MaxSimLen == 2
\* calls made in the runs that hand load_game arguments of every kind
MaxLoadOps == 2
\* moves applied in the games played to their end
MaxEndMoves == 9
\* calls made in the runs that hand positions of every kind to the methods
MaxPosOps == 3
\* calls of the bots made in a game
MaxBotOps == 7
\* random_move is called only among the first calls of a game
MaxRandomOps == 2
\* calls made in the runs with two objects returned by simulate_moves
MaxCloneOps == 3
MaxOrderOps == 7
\* moves applied in the games that are played through their opening phase
MaxOpenMoves == 9
\* apply_move calls made on a ReversiMock and on a ReversiStub
MaxMockMoves == 4
MaxStubMoves == 5
\* largest side and largest player count handed to the constructor
MaxArgSide == 10
MaxArgPlayers == 10

\* Python's None: a value no player id ever takes
None == -9

\* constructor arguments (side, players, othello) explored
Configs ==
    { [side |-> 4, players |-> 2, othello |-> TRUE],
      [side |-> 4, players |-> 2, othello |-> FALSE],
      [side |-> 5, players |-> 3, othello |-> FALSE] }

\* the two-player boards, used where move lists are enumerated
SimConfigs == {c \in Configs : c.players = 2}

\* the board the bots play on: the othello variant, as in bot.py's cmd
BotConfigs == {c \in Configs : c.othello}

\* the boards on which games are played to their end: 3 x 3 with three
\* players is full after its nine opening moves
EndConfigs ==
    { [side |-> 4, players |-> 2, othello |-> TRUE],
      [side |-> 3, players |-> 3, othello |-> FALSE] }

\* the boards of the ReversiMock objects (two players, side >= 4, even) and
\* of the ReversiStub objects (two players, any side)
MockConfigs ==
    { [side |-> 4, players |-> 2, othello |-> TRUE],
      [side |-> 4, players |-> 2, othello |-> FALSE],
      [side |-> 6, players |-> 2, othello |-> TRUE] }

StubConfigs ==
    { [side |-> 2, players |-> 2, othello |-> FALSE],
      [side |-> 3, players |-> 2, othello |-> FALSE],
      [side |-> 4, players |-> 2, othello |-> TRUE] }

Side == cfg.side
Players == cfg.players
Othello == cfg.othello

Cells == (0 .. Side - 1) \X (0 .. Side - 1)

InBounds(r, c) == 0 <= r /\ r < Side /\ 0 <= c /\ c < Side

\* the (ydir, xdir) offsets in the order of the two nested range loops
Dirs == << <<-1, -1>>, <<-1, 0>>, <<-1, 1>>, <<0, -1>>,
           <<0, 1>>, <<1, -1>>, <<1, 0>>, <<1, 1>> >>

\* Board.__init__ : side x side cells, all None
EmptyBoard == [c \in Cells |-> None]

\* Board.add_piece : True iff the cell was None
add_piece_ok(board, location) == board[location] = None

add_piece(board, val, location) ==
    IF board[location] = None THEN [board EXCEPT ![location] = val] ELSE board

\* Reversi.open_spaces : cells whose Piece is None
open_spaces(s) == {c \in Cells : s.board[c] = None}

\* check_end without its test for an empty cell: a gap does not end the walk
RECURSIVE check_end_no_gap(_, _, _, _, _)
check_end_no_gap(grid, val, loc, ydir, xdir) ==
    LET nxt == <<loc[1] + ydir, loc[2] + xdir>> IN
    IF grid[nxt] = val THEN TRUE
    ELSE IF InBounds(loc[1] + 2 * ydir, loc[2] + 2 * xdir)
         THEN check_end_no_gap(grid, val, nxt, ydir, xdir)
         ELSE FALSE

RECURSIVE check_end(_, _, _, _, _)
check_end(grid, val, loc, ydir, xdir) ==
    LET nxt == <<loc[1] + ydir, loc[2] + xdir>> IN
    IF grid[nxt] = val THEN TRUE
    ELSE IF grid[nxt] = None THEN FALSE
    ELSE IF InBounds(loc[1] + 2 * ydir, loc[2] + 2 * xdir)
         THEN check_end(grid, val, nxt, ydir, xdir)
         ELSE FALSE

\* true while the forced-placement regime of players_av_moves applies
opening_phase(s) == ~Othello /\ s.num_moves < Players * Players

\* the block corner taken one cell too far up and left
top_left_off_by_one == (Side \div 2) - (Players \div 2) - 1

\* corner of the central block of the forced-placement regime
top_left == (Side \div 2) - (Players \div 2)

\* Reversi.players_av_moves, the set `possible`
possible_moves(s, turn) ==
    IF opening_phase(s)
    THEN {c \in (top_left .. top_left + Players - 1)
                    \X (top_left .. top_left + Players - 1) : s.grid[c] = None}
    ELSE {cell \in open_spaces(s) :
            \E k \in 1 .. Len(Dirs) :
               LET i == cell[1] + Dirs[k][1]
                   j == cell[2] + Dirs[k][2]
               IN  /\ InBounds(i, j)
                   /\ s.grid[<<i, j>>] # turn
                   /\ check_end(s.grid, turn, cell, Dirs[k][1], Dirs[k][2])}

\* lexicographic order of (row, col) tuples, as list.sort() orders them
MoveLess(a, b) == a[1] < b[1] \/ (a[1] = b[1] /\ a[2] < b[2])

RECURSIVE SortMoves(_)
SortMoves(S) ==
    IF S = {} THEN <<>>
    ELSE LET m == CHOOSE x \in S : \A y \in S : x = y \/ MoveLess(x, y)
         IN  <<m>> \o SortMoves(S \ {m})

\* Reversi.players_av_moves : the sorted list
players_av_moves(s, turn) == SortMoves(possible_moves(s, turn))

\* Reversi.available_moves
available_moves(s) == possible_moves(s, s.turn)

\* the loop with its `return True` inside it: only player 1 is looked at
done_first_player(s) == possible_moves(s, 1) = {}

\* Reversi.done
done(s) == \A i \in 1 .. Players : possible_moves(s, i) = {}

\* Reversi.piece_at : the value returned and the exception raised
piece_at(s, pos) ==
    IF ~(0 <= pos[1] /\ pos[1] <= Side - 1 /\ 0 <= pos[2] /\ pos[2] <= Side - 1)
    THEN [ret |-> None, err |-> "ValueError"]
    ELSE [ret |-> s.grid[pos], err |-> "none"]

\* Reversi.legal_move for an in-bounds pos
legal_move(s, pos) == pos \in available_moves(s)

\* the cells in the order the nested loops of outcome read them
CellSeq == [k \in 1 .. Side * Side |-> <<(k - 1) \div Side, (k - 1) % Side>>]

\* the tally loop of outcome from the k-th cell on; pp is pp_dict
RECURSIVE tally(_, _, _)
tally(grid, k, pp) ==
    IF k > Side * Side THEN pp
    ELSE LET cell == grid[CellSeq[k]] IN
         IF cell = None THEN tally(grid, k + 1, pp)
         ELSE IF cell \in DOMAIN pp
         THEN tally(grid, k + 1, [pp EXCEPT ![cell] = @ + 1])
         ELSE tally(grid, k + 1, pp @@ (cell :> 1))

\* list.sort() of a list of distinct integers, given as their set
RECURSIVE SortInts(_)
SortInts(S) ==
    IF S = {} THEN <<>>
    ELSE LET m == CHOOSE x \in S : \A y \in S : x <= y
         IN  <<m>> \o SortInts(S \ {m})

\* outcome with min in place of max: the players with the fewest pieces
outcome_min(s) ==
    IF ~done(s) THEN [ret |-> <<>>, err |-> "none"]
    ELSE LET pp == tally(s.grid, 1, <<>>) IN
         IF DOMAIN pp = {} THEN [ret |-> <<>>, err |-> "ValueError"]
         ELSE LET min_pieces_on_board ==
                      CHOOSE m \in {pp[q] : q \in DOMAIN pp} :
                          \A q \in DOMAIN pp : pp[q] >= m
              IN  [ret |-> SortInts({player \in DOMAIN pp :
                                       pp[player] = min_pieces_on_board}),
                   err |-> "none"]

\* outcome without its `if self.done`: the pieces are tallied in any state
outcome_always(s) ==
    LET pp == tally(s.grid, 1, <<>>) IN
    IF DOMAIN pp = {} THEN [ret |-> <<>>, err |-> "ValueError"]
    ELSE LET max_pieces_on_board ==
                 CHOOSE m \in {pp[q] : q \in DOMAIN pp} :
                     \A q \in DOMAIN pp : pp[q] <= m
         IN  [ret |-> SortInts({player \in DOMAIN pp :
                                  pp[player] = max_pieces_on_board}),
              err |-> "none"]

\* Reversi.outcome : the list returned and the exception raised; max() of an
\* empty pp_dict raises ValueError
outcome(s) ==
    IF ~done(s) THEN [ret |-> <<>>, err |-> "none"]
    ELSE LET pp == tally(s.grid, 1, <<>>) IN
         IF DOMAIN pp = {} THEN [ret |-> <<>>, err |-> "ValueError"]
         ELSE LET max_pieces_on_board ==
                      CHOOSE m \in {pp[q] : q \in DOMAIN pp} :
                          \A q \in DOMAIN pp : pp[q] <= m
              IN  [ret |-> SortInts({player \in DOMAIN pp :
                                       pp[player] = max_pieces_on_board}),
                   err |-> "none"]

\* change_turn without the recursive call: the next player gets the turn
\* whether or not that player can move
change_turn_once(s) ==
    IF ~done(s)
    THEN [s EXCEPT !.turn = IF s.turn = Players THEN 1 ELSE s.turn + 1]
    ELSE s

RECURSIVE change_turn(_)
change_turn(s) ==
    IF ~done(s)
    THEN LET s1 == [s EXCEPT !.turn = IF s.turn = Players THEN 1 ELSE s.turn + 1]
         IN  IF available_moves(s1) = {} THEN change_turn(s1) ELSE s1
    ELSE s

\* flip_pieces without the recursive call: only the adjacent piece is flipped
flip_pieces_first(s, val, start, ydir, xdir) ==
    LET n == <<start[1] + ydir, start[2] + xdir>> IN
    IF s.grid[n] # val /\ s.grid[n] # None /\ s.board[n] # None
    THEN [s EXCEPT !.board[n] = val, !.grid[n] = val]
    ELSE s

RECURSIVE flip_pieces(_, _, _, _, _)
flip_pieces(s, val, start, ydir, xdir) ==
    LET n == <<start[1] + ydir, start[2] + xdir>>
        s1 == IF s.grid[n] # val /\ s.grid[n] # None /\ s.board[n] # None
              THEN [s EXCEPT !.board[n] = val, !.grid[n] = val]
              ELSE s
    IN  IF /\ InBounds(start[1] + 2 * ydir, start[2] + 2 * xdir)
           /\ check_end(s1.grid, val, n, ydir, xdir)
        THEN flip_pieces(s1, val, n, ydir, xdir)
        ELSE s1

\* `self._board.grid[i][j] != self.turn` compares a Piece (or None) with an
\* int; Piece defines no __eq__, so the comparison is always True
piece_ne_turn(piece, turn) == TRUE

\* the neighbour loop of apply_move without the test of the opening phase:
\* it flips whenever a run is outflanked
RECURSIVE flip_dirs_always(_, _, _, _)
flip_dirs_always(s, pos, numBefore, k) ==
    IF k > Len(Dirs) THEN s
    ELSE LET i == pos[1] + Dirs[k][1]
             j == pos[2] + Dirs[k][2]
             s1 == IF /\ InBounds(i, j)
                      /\ piece_ne_turn(s.board[<<i, j>>], s.turn)
                      /\ check_end(s.grid, s.turn, pos, Dirs[k][1], Dirs[k][2])
                   THEN flip_pieces(s, s.turn, pos, Dirs[k][1], Dirs[k][2])
                   ELSE s
         IN  flip_dirs_always(s1, pos, numBefore, k + 1)

\* the neighbour loop of apply_move, from direction k on
RECURSIVE flip_dirs(_, _, _, _)
flip_dirs(s, pos, numBefore, k) ==
    IF k > Len(Dirs) THEN s
    ELSE LET i == pos[1] + Dirs[k][1]
             j == pos[2] + Dirs[k][2]
             s1 == IF /\ InBounds(i, j)
                      /\ piece_ne_turn(s.board[<<i, j>>], s.turn)
                      /\ check_end(s.grid, s.turn, pos, Dirs[k][1], Dirs[k][2])
                      /\ (Othello \/ numBefore >= Players * Players)
                   THEN flip_pieces(s, s.turn, pos, Dirs[k][1], Dirs[k][2])
                   ELSE s
         IN  flip_dirs(s1, pos, numBefore, k + 1)

\* apply_move without `self._num_moves += 1`
apply_move_no_count(s, pos) ==
    LET s1 == IF add_piece_ok(s.board, pos)
              THEN [s EXCEPT !.board = add_piece(s.board, s.turn, pos),
                             !.grid[pos] = s.turn]
              ELSE s
        s2 == flip_dirs(s1, pos, s.num_moves, 1)
    IN  change_turn(s2)

\* Reversi.apply_move for an in-bounds pos
apply_move(s, pos) ==
    LET s1 == IF add_piece_ok(s.board, pos)
              THEN [s EXCEPT !.board = add_piece(s.board, s.turn, pos),
                             !.grid[pos] = s.turn]
              ELSE s
        s2 == flip_dirs(s1, pos, s.num_moves, 1)
        s3 == [s2 EXCEPT !.num_moves = s.num_moves + 1]
    IN  change_turn(s3)

\* Reversi.legal_move : the value returned and the exception raised
legal_move_checked(s, pos) ==
    IF ~(0 <= pos[1] /\ pos[1] < Side /\ 0 <= pos[2] /\ pos[2] < Side)
    THEN [ret |-> FALSE, err |-> "ValueError"]
    ELSE [ret |-> legal_move(s, pos), err |-> "none"]

\* apply_move with its bounds check after the move is counted
apply_move_late_check(s, pos) ==
    IF ~(0 <= pos[1] /\ pos[1] <= Side - 1 /\ 0 <= pos[2] /\ pos[2] <= Side - 1)
    THEN [s |-> [s EXCEPT !.num_moves = s.num_moves + 1], err |-> "ValueError"]
    ELSE [s |-> apply_move(s, pos), err |-> "none"]

\* Reversi.apply_move : the fields afterwards and the exception raised
apply_move_checked(s, pos) ==
    IF ~(0 <= pos[1] /\ pos[1] <= Side - 1 /\ 0 <= pos[2] /\ pos[2] <= Side - 1)
    THEN [s |-> s, err |-> "ValueError"]
    ELSE [s |-> apply_move(s, pos), err |-> "none"]

\* the constructor with the test its docstring words: players >= side raises
init_err_ge(side, players, othello) ==
    IF players > 9 \/ players < 2 THEN "ValueError"
    ELSE IF side < 3 THEN "ValueError"
    ELSE IF players >= side THEN "ValueError"
    ELSE IF ~(\/ side % 2 = 0 /\ players % 2 = 0
              \/ side % 2 = 1 /\ players % 2 = 1) THEN "ValueError"
    ELSE IF othello /\ players # 2 THEN "ValueError"
    ELSE "none"

\* Reversi.__init__ : the exception its argument checks raise, if any
init_err(side, players, othello) ==
    IF players > 9 \/ players < 2 THEN "ValueError"
    ELSE IF side < 3 THEN "ValueError"
    ELSE IF players > side THEN "ValueError"
    ELSE IF ~(\/ side % 2 = 0 /\ players % 2 = 0
              \/ side % 2 = 1 /\ players % 2 = 1) THEN "ValueError"
    ELSE IF othello /\ players # 2 THEN "ValueError"
    ELSE "none"

\* the constructor with the two colours of the othello seeding exchanged
NewGame_swapped(c) ==
    LET h == c.side \div 2
        b0 == [p \in (0 .. c.side - 1) \X (0 .. c.side - 1) |-> None]
        b1 == IF c.othello
              THEN [b0 EXCEPT ![<<h - 1, h>>] = 2, ![<<h, h - 1>>] = 2,
                              ![<<h - 1, h - 1>>] = 1, ![<<h, h>>] = 1]
              ELSE b0
    IN  [grid |-> b1, board |-> b1, turn |-> 1, num_moves |-> 0]

\* Reversi.__init__ for valid arguments
NewGame(c) ==
    LET h == c.side \div 2
        b0 == [p \in (0 .. c.side - 1) \X (0 .. c.side - 1) |-> None]
        b1 == IF c.othello
              THEN [b0 EXCEPT ![<<h - 1, h>>] = 1, ![<<h, h - 1>>] = 1,
                              ![<<h - 1, h - 1>>] = 2, ![<<h, h>>] = 2]
              ELSE b0
    IN  [grid |-> b1, board |-> b1, turn |-> 1, num_moves |-> 0]


\* the cell test with its lower bound off by one: 0 passes as a piece
valid_piece_zero(num) == 0 <= num /\ num <= Players

\* a cell value load_game accepts as a piece
valid_piece(num) == 0 < num /\ num <= Players

\* the two nested loops of load_game over the argument, a list of rows,
\* from its cell (i, j) on (1-based here); st carries self._grid, newboard,
\* nummoves and the exception raised, if any
RECURSIVE load_cells(_, _, _, _)
load_cells(st, grid, i, j) ==
    IF i > Len(grid) THEN st
    ELSE IF j > Len(grid[i]) THEN load_cells(st, grid, i + 1, 1)
    ELSE LET num == grid[i][j] IN
         IF ~(valid_piece(num) \/ num = None)
         THEN [st EXCEPT !.err = "ValueError"]
         ELSE IF num # None
         THEN IF j > Side
              THEN [st EXCEPT !.err = "IndexError"]
              ELSE load_cells(
                     [st EXCEPT !.newboard = add_piece(st.newboard, num, <<i - 1, j - 1>>),
                                !.grid[<<i - 1, j - 1>>] = num,
                                !.nummoves = st.nummoves + 1],
                     grid, i, j + 1)
         ELSE load_cells(st, grid, i, j + 1)

\* load_game without its last assignment: the move count stays as it was
load_game_keep_count(s, turn, grid) ==
    IF Side # Len(grid) THEN [s |-> s, err |-> "ValueError"]
    ELSE IF turn > Players THEN [s |-> s, err |-> "ValueError"]
    ELSE LET st == load_cells([grid |-> s.grid, newboard |-> EmptyBoard,
                               nummoves |-> 0, err |-> "none"], grid, 1, 1)
         IN  IF st.err # "none"
             THEN [s |-> [s EXCEPT !.grid = st.grid], err |-> st.err]
             ELSE LET s1 == [grid |-> st.grid, board |-> st.newboard,
                             turn |-> turn, num_moves |-> s.num_moves]
                  IN  [s |-> IF available_moves(s1) = {} THEN change_turn(s1) ELSE s1,
                       err |-> "none"]

\* Reversi.load_game : the fields afterwards and the exception raised
load_game(s, turn, grid) ==
    IF Side # Len(grid) THEN [s |-> s, err |-> "ValueError"]
    ELSE IF turn > Players THEN [s |-> s, err |-> "ValueError"]
    ELSE LET st == load_cells([grid |-> s.grid, newboard |-> EmptyBoard,
                               nummoves |-> 0, err |-> "none"], grid, 1, 1)
         IN  IF st.err # "none"
             THEN [s |-> [s EXCEPT !.grid = st.grid], err |-> st.err]
             ELSE LET s1 == [grid |-> st.grid, board |-> st.newboard,
                             turn |-> turn, num_moves |-> s.num_moves]
                      s2 == IF available_moves(s1) = {} THEN change_turn(s1) ELSE s1
                  IN  [s |-> [s2 EXCEPT !.num_moves = st.nummoves], err |-> "none"]

(***************************************************************************)
(* Objects.  A Reversi object is [gridRef, board, turn, num_moves]; its    *)
(* _grid is heap[gridRef].                                                 *)
(***************************************************************************)
NoRef == "none"
LiveRef == "live"
SimRef == "sim"
Sim2Ref == "sim2"
\* the local objects of the bots: temp of best_move, step_one and final of
\* seer_move
TempRef == "temp"
StepRef == "step_one"
FinalRef == "final"
BotRefs == {TempRef, StepRef, FinalRef}
Refs == {LiveRef, SimRef, Sim2Ref} \cup BotRefs
NoGrid == <<>>
NoSim == [gridRef |-> NoRef]

\* the fields of object e in heap h, with _grid dereferenced
Fields(h, e) == [grid |-> h[e.gridRef], board |-> e.board,
                 turn |-> e.turn, num_moves |-> e.num_moves]

\* object e after its fields became s: the same _grid object, written in place
Obj(e, s) == [gridRef |-> e.gridRef, board |-> s.board,
              turn |-> s.turn, num_moves |-> s.num_moves]

View(e) == Fields(heap, e)

\* a shallow copy: the new object shares the _grid list of the original
shallow_copy(h, e, newRef) ==
    [heap |-> h,
     obj |-> [gridRef |-> e.gridRef, board |-> e.board,
              turn |-> e.turn, num_moves |-> e.num_moves]]

\* copy.deepcopy(self) : a new object whose _grid is a new list at newRef
deepcopy(h, e, newRef) ==
    [heap |-> [h EXCEPT ![newRef] = h[e.gridRef]],
     obj |-> [gridRef |-> newRef, board |-> e.board,
              turn |-> e.turn, num_moves |-> e.num_moves]]

\* the loop with `return sim` inside it: only the first move is replayed
sim_loop_first(r, moves, k) ==
    IF k > Len(moves) THEN r
    ELSE IF ~InBounds(moves[k][1], moves[k][2])
    THEN [r EXCEPT !.err = "ValueError"]
    ELSE LET s == apply_move(Fields(r.heap, r.obj), moves[k])
         IN  [heap |-> [r.heap EXCEPT ![r.obj.gridRef] = s.grid],
              obj |-> Obj(r.obj, s), err |-> "none"]

\* the loop with `continue` in place of `raise`: a position off the board is
\* passed over
RECURSIVE sim_loop_skip(_, _, _)
sim_loop_skip(r, moves, k) ==
    IF k > Len(moves) THEN r
    ELSE IF ~InBounds(moves[k][1], moves[k][2])
    THEN sim_loop_skip(r, moves, k + 1)
    ELSE LET s == apply_move(Fields(r.heap, r.obj), moves[k])
         IN  sim_loop_skip([heap |-> [r.heap EXCEPT ![r.obj.gridRef] = s.grid],
                            obj |-> Obj(r.obj, s), err |-> "none"], moves, k + 1)

\* the loop of simulate_moves over moves[k..], acting on object r.obj in r.heap
RECURSIVE sim_loop(_, _, _)
sim_loop(r, moves, k) ==
    IF k > Len(moves) THEN r
    ELSE IF ~InBounds(moves[k][1], moves[k][2])
    THEN [r EXCEPT !.err = "ValueError"]
    ELSE LET s == apply_move(Fields(r.heap, r.obj), moves[k])
         IN  sim_loop([heap |-> [r.heap EXCEPT ![r.obj.gridRef] = s.grid],
                       obj |-> Obj(r.obj, s), err |-> "none"], moves, k + 1)

\* Reversi.simulate_moves called on object e
simulate_moves(h, e, moves) ==
    LET c == deepcopy(h, e, SimRef)
    IN  sim_loop([heap |-> c.heap, obj |-> c.obj, err |-> "none"], moves, 1)

(***************************************************************************)
(* The bots of src/Reversi/bot.py.  A bot acts on object e in heap h; its  *)
(* result is the set of outcomes its random pick allows, each with the     *)
(* heap and the object afterwards and the move applied.                    *)
(***************************************************************************)
\* no move was applied
NoMove == <<-1, -1>>

\* e.simulate_moves(moves), the object returned being made at ref
simulate_at(h, e, moves, ref) ==
    LET c == deepcopy(h, e, ref)
    IN  sim_loop([heap |-> c.heap, obj |-> c.obj, err |-> "none"], moves, 1)

\* revgame.apply_move(pos) on object e, for a pos taken from available_moves
apply_on(h, e, pos) ==
    LET s == apply_move(Fields(h, e), pos)
    IN  [heap |-> [h EXCEPT ![e.gridRef] = s.grid], obj |-> Obj(e, s), pos |-> pos]

\* the nested loops over a grid that count the cells equal to turn, from the
\* k-th cell on
RECURSIVE count_cells(_, _, _)
count_cells(grid, turn, k) ==
    IF k > Side * Side THEN 0
    ELSE (IF grid[CellSeq[k]] = turn THEN 1 ELSE 0) + count_cells(grid, turn, k + 1)

\* after the loops: a random pick among best is applied, if there is any
pick_and_apply(h, e, best) ==
    IF best # <<>>
    THEN {apply_on(h, e, best[pick + 1]) : pick \in 0 .. Len(best) - 1}
    ELSE {[heap |-> h, obj |-> e, pos |-> NoMove]}

\* random_move(revgame)
random_move(h, e) ==
    UNION { pick_and_apply(h, e, possible)
            : possible \in {players_av_moves(Fields(h, e), e.turn)} }

\* the loop of best_move keeping the earlier candidates when a better one is
\* found
RECURSIVE best_loop_no_reset(_, _, _, _, _)
best_loop_no_reset(st, e, turn, possible, k) ==
    IF k > Len(possible) THEN st
    ELSE LET move == possible[k] IN
         CHOOSE r \in
           { LET potential == count_cells(temp.heap[temp.obj.gridRef], turn, 1) IN
             IF potential >= st.most
             THEN best_loop_no_reset([heap |-> temp.heap, most |-> potential,
                                      best |-> Append(st.best, move)],
                                     e, turn, possible, k + 1)
             ELSE best_loop_no_reset([heap |-> temp.heap, most |-> st.most,
                                      best |-> st.best], e, turn, possible, k + 1)
             : temp \in {simulate_at(st.heap, e, <<move>>, TempRef)} } : TRUE

\* the loop of best_move over possible[k..]; st carries the heap, most and best
RECURSIVE best_loop(_, _, _, _, _)
best_loop(st, e, turn, possible, k) ==
    IF k > Len(possible) THEN st
    ELSE LET move == possible[k] IN
         CHOOSE r \in
           { LET potential == count_cells(temp.heap[temp.obj.gridRef], turn, 1) IN
             IF potential > st.most
             THEN best_loop([heap |-> temp.heap, most |-> potential,
                             best |-> <<move>>], e, turn, possible, k + 1)
             ELSE IF potential = st.most
             THEN best_loop([heap |-> temp.heap, most |-> st.most,
                             best |-> Append(st.best, move)], e, turn, possible, k + 1)
             ELSE best_loop([heap |-> temp.heap, most |-> st.most,
                             best |-> st.best], e, turn, possible, k + 1)
             : temp \in {simulate_at(st.heap, e, <<move>>, TempRef)} } : TRUE

\* best_move(revgame, turn)
best_move(h, e, turn) ==
    UNION { UNION { pick_and_apply(st.heap, e, st.best)
                    : st \in {best_loop([heap |-> h, most |-> 0, best |-> <<>>],
                                        e, turn, possible, 1)} }
            : possible \in {players_av_moves(Fields(h, e), e.turn)} }

\* the loop of seer_move over the replies next_possible[j..] to step_one;
\* acc carries the heap and total
RECURSIVE reply_loop(_, _, _, _, _)
reply_loop(acc, step_one, turn, next_possible, j) ==
    IF j > Len(next_possible) THEN acc
    ELSE CHOOSE r \in
           { reply_loop([heap |-> final.heap,
                         total |-> acc.total
                             + count_cells(final.heap[final.obj.gridRef], turn, 1)],
                        step_one, turn, next_possible, j + 1)
             : final \in {simulate_at(acc.heap, step_one, <<next_possible[j]>>,
                                      FinalRef)} } : TRUE

\* the comparison made on the totals, the division left out
quotient_gt_total(total, len, highest) ==
    highest.den = 0 \/ total > highest.num

\* total / len(next_possible) > highest, where highest is the quotient
\* num / den kept as the pair, den = 0 standing for -math.inf; the counts are
\* far below 2^53, so the float quotients compare as the exact fractions do
quotient_gt(total, len, highest) ==
    highest.den = 0 \/ total * highest.den > highest.num * len

quotient_eq(total, len, highest) ==
    highest.den # 0 /\ total * highest.den = highest.num * len

\* the loop of seer_move without its break: a candidate that ends the game
\* replaces best and the loop goes on
RECURSIVE seer_loop_no_break(_, _, _, _, _)
seer_loop_no_break(st, e, turn, possible, k) ==
    IF k > Len(possible) THEN st
    ELSE LET move == possible[k] IN
         CHOOSE r \in
           { IF done(Fields(step_one.heap, step_one.obj))
             THEN seer_loop_no_break(
                    [st EXCEPT !.heap = step_one.heap, !.best = <<move>>],
                    e, turn, possible, k + 1)
             ELSE LET next_possible ==
                          players_av_moves(Fields(step_one.heap, step_one.obj),
                                           step_one.obj.turn)
                  IN  IF next_possible # <<>>
                      THEN CHOOSE q \in
                        { IF quotient_gt(acc.total, Len(next_possible), st.highest)
                          THEN seer_loop_no_break(
                                 [heap |-> acc.heap,
                                  highest |-> [num |-> acc.total,
                                               den |-> Len(next_possible)],
                                  best |-> <<move>>,
                                  repliers |-> st.repliers \cup {step_one.obj.turn}],
                                 e, turn, possible, k + 1)
                          ELSE IF quotient_eq(acc.total, Len(next_possible), st.highest)
                          THEN seer_loop_no_break(
                                 [heap |-> acc.heap, highest |-> st.highest,
                                  best |-> Append(st.best, move),
                                  repliers |-> st.repliers \cup {step_one.obj.turn}],
                                 e, turn, possible, k + 1)
                          ELSE seer_loop_no_break(
                                 [heap |-> acc.heap, highest |-> st.highest,
                                  best |-> st.best,
                                  repliers |-> st.repliers \cup {step_one.obj.turn}],
                                 e, turn, possible, k + 1)
                          : acc \in {reply_loop([heap |-> step_one.heap, total |-> 0],
                                                step_one.obj, turn, next_possible, 1)}
                        } : TRUE
                      ELSE seer_loop_no_break([st EXCEPT !.heap = step_one.heap],
                                     e, turn, possible, k + 1)
             : step_one \in {simulate_at(st.heap, e, <<move>>, StepRef)} } : TRUE

\* the loop of seer_move over possible[k..]; st carries the heap, highest,
\* best and, for the properties, the players whose replies were enumerated
RECURSIVE seer_loop(_, _, _, _, _)
seer_loop(st, e, turn, possible, k) ==
    IF k > Len(possible) THEN st
    ELSE LET move == possible[k] IN
         CHOOSE r \in
           { IF done(Fields(step_one.heap, step_one.obj))
             THEN [st EXCEPT !.heap = step_one.heap, !.best = <<move>>]
             ELSE LET next_possible ==
                          players_av_moves(Fields(step_one.heap, step_one.obj),
                                           step_one.obj.turn)
                  IN  IF next_possible # <<>>
                      THEN CHOOSE q \in
                        { IF quotient_gt(acc.total, Len(next_possible), st.highest)
                          THEN seer_loop(
                                 [heap |-> acc.heap,
                                  highest |-> [num |-> acc.total,
                                               den |-> Len(next_possible)],
                                  best |-> <<move>>,
                                  repliers |-> st.repliers \cup {step_one.obj.turn}],
                                 e, turn, possible, k + 1)
                          ELSE IF quotient_eq(acc.total, Len(next_possible), st.highest)
                          THEN seer_loop(
                                 [heap |-> acc.heap, highest |-> st.highest,
                                  best |-> Append(st.best, move),
                                  repliers |-> st.repliers \cup {step_one.obj.turn}],
                                 e, turn, possible, k + 1)
                          ELSE seer_loop(
                                 [heap |-> acc.heap, highest |-> st.highest,
                                  best |-> st.best,
                                  repliers |-> st.repliers \cup {step_one.obj.turn}],
                                 e, turn, possible, k + 1)
                          : acc \in {reply_loop([heap |-> step_one.heap, total |-> 0],
                                                step_one.obj, turn, next_possible, 1)}
                        } : TRUE
                      ELSE seer_loop([st EXCEPT !.heap = step_one.heap],
                                     e, turn, possible, k + 1)
             : step_one \in {simulate_at(st.heap, e, <<move>>, StepRef)} } : TRUE

\* the state of seer_move after its loop over the candidates
seer_scan(h, e, turn) ==
    seer_loop([heap |-> h, highest |-> [num |-> 0, den |-> 0],
               best |-> <<>>, repliers |-> {}],
              e, turn, players_av_moves(Fields(h, e), e.turn), 1)

\* seer_move(revgame, turn)
seer_move(h, e, turn) ==
    UNION { pick_and_apply(st.heap, e, st.best) : st \in {seer_scan(h, e, turn)} }

(***************************************************************************)
(* mocks.py.  A ReversiMock and a ReversiStub have _grid, _turn and        *)
(* _num_moves; they keep no Board, and the board field stays empty.        *)
(***************************************************************************)
\* ReversiMock.__init__
NewMock(c) ==
    LET h == c.side \div 2
        g0 == [p \in (0 .. c.side - 1) \X (0 .. c.side - 1) |-> None]
    IN  [grid |-> IF c.othello
                  THEN [g0 EXCEPT ![<<h - 1, h>>] = 1, ![<<h, h - 1>>] = 1,
                                  ![<<h - 1, h - 1>>] = 2, ![<<h, h>>] = 2]
                  ELSE g0,
         board |-> g0, turn |-> 1, num_moves |-> 0]

\* ReversiMock.done
mock_done(s) == s.grid[<<0, 0>>] # None \/ s.grid[<<Side - 1, Side - 1>>] # None

\* ReversiMock.outcome with its two tests in the other order
mock_outcome_tie_first(s) ==
    IF ~mock_done(s) THEN <<>>
    ELSE IF s.grid[<<Side - 1, Side - 1>>] # None THEN <<1, 2>>
    ELSE IF s.grid[<<0, 0>>] # None THEN <<s.grid[<<0, 0>>]>>
    ELSE <<>>

\* ReversiMock.outcome
mock_outcome(s) ==
    IF ~mock_done(s) THEN <<>>
    ELSE IF s.grid[<<0, 0>>] # None THEN <<s.grid[<<0, 0>>]>>
    ELSE IF s.grid[<<Side - 1, Side - 1>>] # None THEN <<1, 2>>
    ELSE <<>>

\* ReversiMock.apply_move : the fields afterwards and the exception raised
mock_apply_move(s, pos) ==
    IF ~InBounds(pos[1], pos[2]) THEN [s |-> s, err |-> "ValueError"]
    ELSE [s |-> [s EXCEPT !.grid = [s.grid EXCEPT ![pos] = s.turn],
                          !.turn = IF s.turn = 1 THEN 2 ELSE 1,
                          !.num_moves = s.num_moves + 1],
          err |-> "none"]

\* ReversiStub.__init__ : the indices -1 are the last row and column
NewStub(c) ==
    LET g0 == [p \in (0 .. c.side - 1) \X (0 .. c.side - 1) |-> None]
        g1 == [g0 EXCEPT ![<<0, c.side - 1>>] = 1]
        g2 == [g1 EXCEPT ![<<c.side - 1, 0>>] = 1]
        g3 == [g2 EXCEPT ![<<0, 0>>] = 2]
        g4 == [g3 EXCEPT ![<<c.side - 1, c.side - 1>>] = 2]
    IN  [grid |-> g4, board |-> g0, turn |-> 1, num_moves |-> 0]

\* ReversiStub.done
stub_done(s) == s.num_moves = 4

\* ReversiStub.outcome
stub_outcome(s) ==
    IF ~stub_done(s) THEN <<>>
    ELSE IF s.grid[<<0, 1>>] = None THEN <<1, 2>>
    ELSE <<s.grid[<<0, 1>>]>>

\* ReversiStub.apply_move, for a position on the board
stub_apply_move(s, pos) ==
    [s EXCEPT !.grid = [s.grid EXCEPT ![pos] = s.turn],
              !.turn = IF s.turn = 1 THEN 2 ELSE 1,
              !.num_moves = s.num_moves + 1]

(***************************************************************************)
(* Inputs.                                                                 *)
(***************************************************************************)
N == None

\* grids handed to load_game, as lists of rows; all but the empty ones are
\* positions that arise in play
LoadGrids ==
    IF Side = 4 /\ Othello
    THEN { << <<2, 2, 2, N>>, <<N, 1, 1, N>>, <<N, 1, 1, 1>>, <<N, N, N, N>> >>,
           << <<2, 1, N, 1>>, <<N, 2, 1, 1>>, <<N, 1, 2, 1>>, <<N, N, N, 2>> >>,
           << <<N, N, N, N>>, <<N, N, N, N>>, <<N, N, N, N>>, <<N, N, N, N>> >> }
    ELSE IF Side = 4
    THEN { << <<N, 2, 2, 2>>, <<N, 1, 1, N>>, <<1, 1, 1, N>>, <<N, N, N, N>> >>,
           << <<N, N, N, N>>, <<N, 1, N, N>>, <<N, N, 2, N>>, <<N, N, N, N>> >>,
           << <<N, N, N, N>>, <<N, N, N, N>>, <<N, N, N, N>>, <<N, N, N, N>> >> }
    ELSE { << <<N, N, N, N, N>>, <<N, 1, 2, 2, N>>, <<N, 3, 1, 2, N>>,
              <<N, 3, 1, 3, N>>, <<N, N, N, N, N>> >>,
           << <<N, N, N, N, N>>, <<N, 1, 1, 1, 1>>, <<N, 3, 1, 1, N>>,
              <<N, 3, 1, 3, N>>, <<N, N, N, N, N>> >> }

\* turn arguments handed to load_game: the player ids, and the integers
\* next to them on either side
LoadTurns == -1 .. Players + 1

\* grid arguments handed to load_game: the grids above, and each of them with
\* a row missing, a row too many, a short row, a long row (its extra cell
\* empty or a piece), a cell that is 0 or players + 1, and a long row
\* followed by a cell that is 0
LoadArgs ==
    LoadGrids
    \cup {SubSeq(g, 1, Side - 1) : g \in LoadGrids}
    \cup {Append(g, g[1]) : g \in LoadGrids}
    \cup {[g EXCEPT ![2] = SubSeq(g[2], 1, Side - 1)] : g \in LoadGrids}
    \cup {[g EXCEPT ![2] = Append(g[2], v)] : g \in LoadGrids, v \in {None, 1}}
    \cup {[g EXCEPT ![3][2] = v] : g \in LoadGrids, v \in {0, Players + 1}}
    \cup {[g EXCEPT ![2] = Append(g[2], 1), ![3][2] = 0] : g \in LoadGrids}

\* argument triples handed to the constructor
InitArgs ==
    [side : -1 .. MaxArgSide, players : -1 .. MaxArgPlayers, othello : BOOLEAN]

\* positions outside the board: a negative row, a column equal to side
OutOfBoundsMoves == {<<-1, 0>>, <<0, Side>>}

\* positions outside the board handed to piece_at, legal_move and apply_move:
\* negative or too large in the row, in the column, in both
OutOfBoundsArgs ==
    {<<-1, 0>>, <<0, -1>>, <<Side, 0>>, <<0, Side>>, <<-1, Side>>, <<Side + 1, -2>>}

\* in-bounds positions tried whether legal or not: a corner, and a centre
\* cell, which is occupied from the start in the othello variant
FixedMoves == {<<0, 0>>, <<Side \div 2, Side \div 2>>}

\* move lists of length <= n handed to simulate_moves on fields s: each move
\* is legal at its point of the replay, or one of the fixed positions
RECURSIVE MoveLists(_, _)
MoveLists(s, n) ==
    IF n = 0 THEN {<<>>}
    ELSE {<<>>} \cup
         UNION { { <<m>> \o rest :
                     rest \in MoveLists(IF InBounds(m[1], m[2])
                                        THEN apply_move(s, m) ELSE s, n - 1) } :
                 m \in available_moves(s) \cup FixedMoves \cup OutOfBoundsMoves }

\* the record kept of the latest call: its name, the player it acted for (or
\* the turn argument), the number of pieces it flipped, its arguments and
\* the exception it raised
\* positions handed to the apply_move of the mock and of the stub: the two
\* corners that end a mock game, the cell (0,1) that decides a stub game, and
\* two other cells
MockMoves == {<<0, 0>>, <<Side - 1, Side - 1>>, <<0, 1>>, <<1, 1>>, <<Side - 1, 0>>}

\* move lists handed to simulate_moves in the runs with two simulated
\* objects: the empty list and the lists of one legal move
CloneLists(s) == {<<>>} \cup {<<m>> : m \in available_moves(s)}

NoLast == [op |-> "init", turn |-> 0, flips |-> 0, pos |-> <<0, 0>>,
           moves |-> <<>>, arg |-> <<>>, err |-> "none"]

(***************************************************************************)
(* The state machine.                                                      *)
(***************************************************************************)
\* Reversi(side, players, othello) for the argument triples of C
Construct(C) ==
    /\ cfg \in C
    /\ heap = [r \in Refs |-> IF r = LiveRef THEN NewGame(cfg).grid ELSE NoGrid]
    /\ game = [gridRef |-> LiveRef, board |-> NewGame(cfg).board,
               turn |-> NewGame(cfg).turn, num_moves |-> NewGame(cfg).num_moves]
    /\ sim = NoSim
    /\ sim2 = NoSim
    /\ snap = NoRef
    /\ last = NoLast
    /\ nops = 0

Init == Construct(Configs)

InitSim == Construct(SimConfigs)

\* the arguments of a constructor call about to be made: no object yet
InitArgsChosen ==
    /\ cfg \in InitArgs
    /\ heap = [r \in Refs |-> NoGrid]
    /\ game = NoSim
    /\ sim = NoSim
    /\ sim2 = NoSim
    /\ snap = NoRef
    /\ last = [NoLast EXCEPT !.op = "args"]
    /\ nops = 0

\* game = Reversi(side, players, othello); no object exists when it raises
New ==
    /\ last.op = "args"
    /\ \E err \in {init_err(cfg.side, cfg.players, cfg.othello)} :
         /\ last' = [NoLast EXCEPT !.op = "construct", !.err = err]
         /\ IF err = "none"
            THEN \E s \in {NewGame(cfg)} :
                    /\ heap' = [heap EXCEPT ![LiveRef] = s.grid]
                    /\ game' = [gridRef |-> LiveRef, board |-> s.board,
                                turn |-> s.turn, num_moves |-> s.num_moves]
            ELSE UNCHANGED <<heap, game>>
    /\ nops' = nops + 1
    /\ UNCHANGED <<cfg, sim, sim2, snap>>

InitEnd == Construct(EndConfigs)

InitBot == Construct(BotConfigs)

\* game.apply_move(pos) with a legal pos, while fewer than cap calls were made
ApplyMoveCap(cap) ==
    /\ nops < cap
    /\ \E pos \in available_moves(View(game)) :
         \E s \in {apply_move(View(game), pos)} :
            /\ heap' = [heap EXCEPT ![game.gridRef] = s.grid]
            /\ game' = Obj(game, s)
            /\ last' = [NoLast EXCEPT
                           !.op = "apply_move", !.turn = game.turn,
                           !.flips = Cardinality({c \in Cells \ {pos} :
                                                    s.grid[c] # View(game).grid[c]})]
    /\ nops' = nops + 1
    /\ UNCHANGED <<cfg, sim, sim2, snap>>

ApplyMove == ApplyMoveCap(MaxMoves)

ApplyMoveOps == ApplyMoveCap(MaxOps)

ApplyMoveSim == ApplyMoveCap(MaxSimOps)

\* game.load_game(turn, grid)
LoadGame ==
    /\ nops < MaxOps
    /\ \E turn \in 1 .. Players, grid \in LoadGrids :
         \E r \in {load_game(View(game), turn, grid)} :
            /\ heap' = [heap EXCEPT ![game.gridRef] = r.s.grid]
            /\ game' = Obj(game, r.s)
            /\ last' = [NoLast EXCEPT !.op = "load_game", !.turn = turn,
                                      !.arg = grid, !.err = r.err]
    /\ nops' = nops + 1
    /\ UNCHANGED <<cfg, sim, sim2, snap>>

\* game.load_game(turn, grid) with any of the turn and grid arguments, on a
\* position reached by play or by a load followed by play
LoadGameArgs ==
    /\ nops < MaxLoadOps
    /\ last.op # "load_game"
    /\ \E turn \in LoadTurns, grid \in LoadArgs :
         \E r \in {load_game(View(game), turn, grid)} :
            /\ heap' = [heap EXCEPT ![game.gridRef] = r.s.grid]
            /\ game' = Obj(game, r.s)
            /\ last' = [NoLast EXCEPT !.op = "load_game", !.turn = turn,
                                      !.arg = grid, !.err = r.err]
    /\ nops' = nops + 1
    /\ UNCHANGED <<cfg, sim, sim2, snap>>

\* game.piece_at(pos)
PieceAt ==
    /\ nops < MaxPosOps
    /\ \E pos \in OutOfBoundsArgs \cup FixedMoves :
         \E r \in {piece_at(View(game), pos)} :
            last' = [NoLast EXCEPT !.op = "piece_at", !.pos = pos,
                                  !.arg = <<r.ret>>, !.err = r.err]
    /\ nops' = nops + 1
    /\ UNCHANGED <<cfg, heap, game, sim, sim2, snap>>

\* game.legal_move(pos)
LegalMove ==
    /\ nops < MaxPosOps
    /\ \E pos \in OutOfBoundsArgs \cup FixedMoves :
         \E r \in {legal_move_checked(View(game), pos)} :
            last' = [NoLast EXCEPT !.op = "legal_move", !.pos = pos,
                                  !.arg = <<r.ret>>, !.err = r.err]
    /\ nops' = nops + 1
    /\ UNCHANGED <<cfg, heap, game, sim, sim2, snap>>

\* game.apply_move(pos) with pos a legal move or a position off the board
ApplyMovePos ==
    /\ nops < MaxPosOps
    /\ \E pos \in OutOfBoundsArgs \cup available_moves(View(game)) :
         \E r \in {apply_move_checked(View(game), pos)} :
            /\ heap' = [heap EXCEPT ![game.gridRef] = r.s.grid]
            /\ game' = Obj(game, r.s)
            /\ last' = [NoLast EXCEPT !.op = "apply_move", !.turn = game.turn,
                                      !.pos = pos, !.err = r.err]
    /\ nops' = nops + 1
    /\ UNCHANGED <<cfg, sim, sim2, snap>>

\* a bot has returned with outcome r: its local objects are gone
BotReturns(op, r) ==
    /\ heap' = [ref \in Refs |-> IF ref \in BotRefs THEN NoGrid ELSE r.heap[ref]]
    /\ game' = r.obj
    /\ last' = [NoLast EXCEPT !.op = op, !.turn = game.turn, !.pos = r.pos]
    /\ nops' = nops + 1
    /\ UNCHANGED <<cfg, sim, sim2, snap>>

\* random_move(game), among the first MaxRandomOps calls
RandomMove ==
    /\ nops < MaxRandomOps
    /\ \E r \in random_move(heap, game) : BotReturns("random_move", r)

\* best_move(game, game.turn)
BestMove ==
    /\ nops < MaxBotOps
    /\ \E r \in best_move(heap, game, game.turn) : BotReturns("best_move", r)

\* seer_move(game, game.turn)
SeerMove ==
    /\ nops < MaxBotOps
    /\ \E r \in seer_move(heap, game, game.turn) : BotReturns("seer_move", r)

\* game = ReversiMock(side, 2, othello)
InitMock ==
    /\ cfg \in MockConfigs
    /\ heap = [r \in Refs |-> IF r = LiveRef THEN NewMock(cfg).grid ELSE NoGrid]
    /\ game = [gridRef |-> LiveRef, board |-> NewMock(cfg).board,
               turn |-> 1, num_moves |-> 0]
    /\ sim = NoSim
    /\ sim2 = NoSim
    /\ snap = NoRef
    /\ last = NoLast
    /\ nops = 0

\* game.apply_move(pos) on the mock, for any position on the board; last.moves
\* keeps the positions applied so far
MockApplyMove ==
    /\ nops < MaxMockMoves
    /\ \E pos \in MockMoves :
         \E r \in {mock_apply_move(View(game), pos)} :
            /\ heap' = [heap EXCEPT ![game.gridRef] = r.s.grid]
            /\ game' = Obj(game, r.s)
            /\ last' = [NoLast EXCEPT !.op = "apply_move", !.turn = game.turn,
                                      !.pos = pos, !.err = r.err,
                                      !.moves = Append(last.moves, pos)]
    /\ nops' = nops + 1
    /\ UNCHANGED <<cfg, sim, sim2, snap>>

\* game = ReversiStub(side, 2, othello)
InitStub ==
    /\ cfg \in StubConfigs
    /\ heap = [r \in Refs |-> IF r = LiveRef THEN NewStub(cfg).grid ELSE NoGrid]
    /\ game = [gridRef |-> LiveRef, board |-> NewStub(cfg).board,
               turn |-> 1, num_moves |-> 0]
    /\ sim = NoSim
    /\ sim2 = NoSim
    /\ snap = NoRef
    /\ last = NoLast
    /\ nops = 0

\* game.apply_move(pos) on the stub, for a position on the board
StubApplyMove ==
    /\ nops < MaxStubMoves
    /\ \E pos \in MockMoves :
         /\ heap' = [heap EXCEPT ![game.gridRef] = stub_apply_move(View(game), pos).grid]
         /\ game' = Obj(game, stub_apply_move(View(game), pos))
         /\ last' = [NoLast EXCEPT !.op = "apply_move", !.turn = game.turn,
                                   !.pos = pos]
    /\ nops' = nops + 1
    /\ UNCHANGED <<cfg, sim, sim2, snap>>

\* sim = game.simulate_moves(moves); no object is returned when it raises.
\* One call per run: a second call would only replace what the first returned.
SimulateMoves ==
    /\ nops < MaxSimOps
    /\ last.op # "simulate_moves" /\ sim = NoSim
    /\ \E moves \in MoveLists(View(game), MaxSimLen) :
         \E r \in {simulate_moves(heap, game, moves)} :
            /\ heap' = IF r.err = "none" THEN r.heap
                       ELSE [r.heap EXCEPT ![SimRef] = NoGrid]
            /\ sim' = IF r.err = "none" THEN r.obj ELSE NoSim
            /\ last' = [NoLast EXCEPT !.op = "simulate_moves", !.moves = moves,
                                      !.turn = game.turn, !.err = r.err]
    /\ nops' = nops + 1
    /\ UNCHANGED <<cfg, game, sim2, snap>>

\* snap = game.grid
GridCall ==
    /\ nops < MaxOps
    /\ snap' = game.gridRef
    /\ last' = [NoLast EXCEPT !.op = "grid"]
    /\ nops' = nops + 1
    /\ UNCHANGED <<cfg, heap, game, sim, sim2>>

\* the front end assigns snap[row][col] = v
SnapWrite ==
    /\ nops < MaxOps
    /\ snap # NoRef
    /\ \E c \in Cells, v \in {None} \cup (1 .. Players) :
         /\ heap' = [heap EXCEPT ![snap][c] = v]
         /\ last' = [NoLast EXCEPT !.op = "write", !.pos = c, !.turn = v]
    /\ nops' = nops + 1
    /\ UNCHANGED <<cfg, game, sim, sim2, snap>>

Next == ApplyMove

Spec == Init /\ [][Next]_vars

NextLoad == ApplyMoveOps \/ LoadGame

SpecLoad == Init /\ [][NextLoad]_vars

NextSim == ApplyMoveSim \/ SimulateMoves

SpecSim == InitSim /\ [][NextSim]_vars

NextSnap == ApplyMoveOps \/ LoadGame \/ GridCall \/ SnapWrite

SpecSnap == InitSim /\ [][NextSnap]_vars

ApplyMoveEnd == ApplyMoveCap(MaxEndMoves)

NextEnd == ApplyMoveEnd

SpecEnd == InitEnd /\ [][NextEnd]_vars

NextNew == New

SpecNew == InitArgsChosen /\ [][NextNew]_vars

NextPos == ApplyMovePos \/ PieceAt \/ LegalMove

SpecPos == Init /\ [][NextPos]_vars

NextBot == RandomMove \/ BestMove \/ SeerMove

SpecBot == InitBot /\ [][NextBot]_vars

\* game.apply_move(pos) and game.load_game(turn, grid) in the runs with two
\* simulated objects
ApplyMoveClone == ApplyMoveCap(MaxCloneOps)

LoadGameClone ==
    /\ nops < MaxCloneOps
    /\ sim # NoSim /\ sim2 # NoSim
    /\ \E turn \in 1 .. Players, grid \in LoadGrids :
         \E r \in {load_game(View(game), turn, grid)} :
            /\ heap' = [heap EXCEPT ![game.gridRef] = r.s.grid]
            /\ game' = Obj(game, r.s)
            /\ last' = [NoLast EXCEPT !.op = "load_game", !.turn = turn,
                                      !.arg = grid, !.err = r.err]
    /\ nops' = nops + 1
    /\ UNCHANGED <<cfg, sim, sim2, snap>>

\* sim = game.simulate_moves(moves), with a list of legal moves
SimulateFirst ==
    /\ nops < MaxCloneOps
    /\ sim = NoSim
    /\ \E moves \in CloneLists(View(game)) :
         \E r \in {simulate_at(heap, game, moves, SimRef)} :
            /\ r.err = "none"
            /\ heap' = r.heap
            /\ sim' = r.obj
            /\ last' = [NoLast EXCEPT !.op = "simulate_moves", !.moves = moves,
                                      !.turn = game.turn]
    /\ nops' = nops + 1
    /\ UNCHANGED <<cfg, game, sim2, snap>>

\* sim2 = game.simulate_moves(moves), with a list of legal moves
SimulateSecond ==
    /\ nops < MaxCloneOps
    /\ sim # NoSim /\ sim2 = NoSim
    /\ \E moves \in CloneLists(View(game)) :
         \E r \in {simulate_at(heap, game, moves, Sim2Ref)} :
            /\ r.err = "none"
            /\ heap' = r.heap
            /\ sim2' = r.obj
            /\ last' = [NoLast EXCEPT !.op = "simulate_moves2", !.moves = moves,
                                      !.turn = game.turn]
    /\ nops' = nops + 1
    /\ UNCHANGED <<cfg, game, sim, snap>>

\* sim.apply_move(pos) with a move that is legal on sim
SimApplyMove ==
    /\ nops < MaxCloneOps
    /\ sim # NoSim /\ sim2 # NoSim
    /\ \E pos \in available_moves(View(sim)) :
         \E s \in {apply_move(View(sim), pos)} :
            /\ heap' = [heap EXCEPT ![sim.gridRef] = s.grid]
            /\ sim' = Obj(sim, s)
            /\ last' = [NoLast EXCEPT !.op = "sim.apply_move", !.turn = sim.turn,
                                      !.pos = pos]
    /\ nops' = nops + 1
    /\ UNCHANGED <<cfg, game, sim2, snap>>

\* sim2.apply_move(pos) with a move that is legal on sim2
Sim2ApplyMove ==
    /\ nops < MaxCloneOps
    /\ sim # NoSim /\ sim2 # NoSim
    /\ \E pos \in available_moves(View(sim2)) :
         \E s \in {apply_move(View(sim2), pos)} :
            /\ heap' = [heap EXCEPT ![sim2.gridRef] = s.grid]
            /\ sim2' = Obj(sim2, s)
            /\ last' = [NoLast EXCEPT !.op = "sim2.apply_move", !.turn = sim2.turn,
                                      !.pos = pos]
    /\ nops' = nops + 1
    /\ UNCHANGED <<cfg, game, sim, snap>>

\* sim.load_game(turn, grid)
SimLoadGame ==
    /\ nops < MaxCloneOps
    /\ sim # NoSim /\ sim2 # NoSim
    /\ \E turn \in 1 .. Players, grid \in LoadGrids :
         \E r \in {load_game(View(sim), turn, grid)} :
            /\ heap' = [heap EXCEPT ![sim.gridRef] = r.s.grid]
            /\ sim' = Obj(sim, r.s)
            /\ last' = [NoLast EXCEPT !.op = "sim.load_game", !.turn = turn,
                                      !.arg = grid, !.err = r.err]
    /\ nops' = nops + 1
    /\ UNCHANGED <<cfg, game, sim2, snap>>

\* sim2.load_game(turn, grid)
Sim2LoadGame ==
    /\ nops < MaxCloneOps
    /\ sim # NoSim /\ sim2 # NoSim
    /\ \E turn \in 1 .. Players, grid \in LoadGrids :
         \E r \in {load_game(View(sim2), turn, grid)} :
            /\ heap' = [heap EXCEPT ![sim2.gridRef] = r.s.grid]
            /\ sim2' = Obj(sim2, r.s)
            /\ last' = [NoLast EXCEPT !.op = "sim2.load_game", !.turn = turn,
                                      !.arg = grid, !.err = r.err]
    /\ nops' = nops + 1
    /\ UNCHANGED <<cfg, game, sim, snap>>

\* a game, two objects returned by its simulate_moves, and calls on the three
NextClone ==
    \/ ApplyMoveClone \/ LoadGameClone
    \/ SimulateFirst \/ SimulateSecond
    \/ SimApplyMove \/ Sim2ApplyMove
    \/ SimLoadGame \/ Sim2LoadGame

SpecClone == InitSim /\ [][NextClone]_vars

\* non-othello games played through the opening phase
InitOpen == Construct({c \in Configs : ~c.othello})

ApplyMoveOpen == ApplyMoveCap(MaxOpenMoves)

NextOpen == ApplyMoveOpen

SpecOpen == InitOpen /\ [][NextOpen]_vars

\* games on a ReversiMock
NextMock == MockApplyMove

SpecMock == InitMock /\ [][NextMock]_vars

\* games on a ReversiStub
NextStub == StubApplyMove

SpecStub == InitStub /\ [][NextStub]_vars

ApplyMoveLoad == ApplyMoveCap(MaxLoadOps)

NextLoadArgs == ApplyMoveLoad \/ LoadGameArgs

SpecLoadArgs == Init /\ [][NextLoadArgs]_vars

(***************************************************************************)
(* Vocabulary of the properties.                                           *)
(***************************************************************************)
Dir8 == {d \in {-1, 0, 1} \X {-1, 0, 1} : d # <<0, 0>>}

\* the cell m steps from c in direction d
Step(c, d, m) == <<c[1] + m * d[1], c[2] + m * d[2]>>

\* the lengths k >= 1 of a run of other players' pieces that starts next to c
\* in direction d and is followed, inside the board, by a piece of p
RunLengths(grid, c, p, d) ==
    {k \in 1 .. Side :
        /\ \A m \in 1 .. k : /\ Step(c, d, m) \in Cells
                             /\ grid[Step(c, d, m)] # None
                             /\ grid[Step(c, d, m)] # p
        /\ Step(c, d, k + 1) \in Cells
        /\ grid[Step(c, d, k + 1)] = p}

\* the cells of all valid outflank runs of p that start next to c
RunCells(grid, c, p) ==
    {Step(c, d[1], d[2]) : d \in {e \in Dir8 \X (1 .. Side) :
                                    \E k \in RunLengths(grid, c, p, e[1]) : e[2] <= k}}

\* the classic outflank test
Outflanks(grid, c, p) == \E d \in Dir8 : RunLengths(grid, c, p, d) # {}

\* the central players x players block
CentralBlock ==
    {c \in Cells : /\ (Side \div 2) - (Players \div 2) <= c[1]
                   /\ c[1] < (Side \div 2) - (Players \div 2) + Players
                   /\ (Side \div 2) - (Players \div 2) <= c[2]
                   /\ c[2] < (Side \div 2) - (Players \div 2) + Players}

\* number of players passed over going from t to q in cyclic order
CycDist(t, q) == ((q - t - 1) % Players) + 1

live == View(game)

\* this step is a call op on the live game
Called(op) == nops' = nops + 1 /\ last'.op = op

\* C1: in the normal phase of a game played from construction, a cell is in
\* available_moves(p) iff it is empty and p outflanks from it in a direction
C1_NormalPhaseMoves ==
    ~opening_phase(live) =>
        \A p \in 1 .. Players :
            possible_moves(live, p) =
                {c \in Cells : live.grid[c] = None /\ Outflanks(live.grid, c, p)}

C1_Witness ==
    /\ ~Othello /\ live.num_moves >= Players * Players
    /\ available_moves(live) # {}
    /\ \E c \in Cells : live.grid[c] = None /\ c \notin available_moves(live)

\* the cells that were empty before this step and are occupied after it
Placed == {c \in Cells : live.grid[c] = None /\ heap'[LiveRef][c] # None}

C3_OnlyRunsChange ==
    [][Called("apply_move") =>
         \E pos \in available_moves(live) :
            /\ Placed = {pos}
            /\ {c \in Cells : heap'[LiveRef][c] # live.grid[c]}
                  \subseteq {pos} \cup RunCells(live.grid, pos, game.turn)]_vars

\* C4: after an apply_move by t that leaves some player a move, the turn is
\* with the first player after t in cyclic order (t last) who has a move
C4_TurnGoesToNextWithMove ==
    (last.op = "apply_move" /\ ~done(live)) =>
        /\ live.turn \in 1 .. Players
        /\ possible_moves(live, live.turn) # {}
        /\ \A r \in 1 .. Players :
              CycDist(last.turn, r) < CycDist(last.turn, live.turn)
                 => possible_moves(live, r) = {}

\* three players: the player after the mover was passed over
C4_Witness ==
    /\ last.op = "apply_move" /\ ~done(live)
    /\ Players = 3
    /\ CycDist(last.turn, live.turn) = 2

\* C5: in the non-othello variant with fewer than players^2 moves applied,
\* available_moves(p) is the set of empty cells of the central block
C5_OpeningMoves ==
    (~Othello /\ live.num_moves < Players * Players) =>
        \A p \in 1 .. Players :
            possible_moves(live, p) = {c \in CentralBlock : live.grid[c] = None}

C5_Witness ==
    /\ ~Othello /\ Players = 3
    /\ live.num_moves > 0 /\ live.num_moves < Players * Players
    /\ available_moves(live) # {}
    /\ \E c \in Cells \ CentralBlock : TRUE

\* game.apply_move(m1), ..., game.apply_move(mk) on fields s: the fields
\* afterwards, and whether every move was legal for whoever held the turn
RECURSIVE Replay(_, _)
Replay(s, moves) ==
    IF moves = <<>> THEN [s |-> s, legal |-> TRUE]
    ELSE IF Head(moves) \notin available_moves(s) THEN [s |-> s, legal |-> FALSE]
    ELSE Replay(apply_move(s, Head(moves)), Tail(moves))

\* C6: simulate_moves(moves) leaves the object it is called on unchanged,
\* also when it raises after replaying some of the moves
C6_SimulateLeavesOriginal ==
    [][Called("simulate_moves") =>
         /\ View(game)' = View(game)
         /\ available_moves(View(game))' = available_moves(View(game))
         /\ done(View(game))' = done(View(game))]_vars

\* the call raised on its second move, after replaying a capturing first one
C6_Witness ==
    /\ last.op = "simulate_moves" /\ last.err = "ValueError"
    /\ Len(last.moves) = 2
    /\ last.moves[1] \in available_moves(live)
    /\ RunCells(live.grid, last.moves[1], live.turn) # {}

\* C7: for a list of legal moves, the object simulate_moves returns has the
\* grid, turn, move count and done of the game after apply_move of each move
C7_SimulateEqualsReplay ==
    [][Called("simulate_moves") =>
         \A e \in {Replay(live, last'.moves)} :
         e.legal =>
            /\ last'.err = "none"
            /\ sim' # NoSim
            /\ Fields(heap', sim').grid = e.s.grid
            /\ sim'.turn = e.s.turn
            /\ sim'.num_moves = e.s.num_moves
            /\ done(Fields(heap', sim')) = done(e.s)]_vars

\* two legal moves were replayed in a two-player game and the copy is not
\* done, yet its turn is not back with the first mover: a player was passed
\* over inside the copy
C7_Witness ==
    /\ last.op = "simulate_moves" /\ last.err = "none"
    /\ Len(last.moves) = 2
    /\ Replay(live, last.moves).legal
    /\ sim # NoSim
    /\ sim.num_moves = live.num_moves + 2
    /\ sim.turn # live.turn
    /\ ~done(Fields(heap, sim))

\* C8: a value returned by grid is an independent snapshot: apply_move and
\* load_game do not change it, and writing into it does not change the game
C8_GridIsSnapshot ==
    [][/\ (snap # NoRef /\ (Called("apply_move") \/ Called("load_game")))
             => heap'[snap] = heap[snap]
       /\ Called("write") => View(game)' = View(game)]_vars

\* the grid argument of the latest load_game, as a function of the cells
ArgGrid == [c \in Cells |-> last.arg[c[1] + 1][c[2] + 1]]

\* the players with a legal move in position g with n moves applied
LegalIn(g, n, p) ==
    IF ~Othello /\ n < Players * Players
    THEN {c \in CentralBlock : g[c] = None}
    ELSE {c \in Cells : g[c] = None /\ Outflanks(g, c, p)}

\* C9: after a successful load_game(turn, g) the grid equals g cell for cell
C9_LoadReplacesGrid ==
    (last.op = "load_game" /\ last.err = "none") =>
        \A c \in Cells : live.grid[c] = ArgGrid[c]

\* C10: after a successful load_game(turn, g) that leaves some player a legal
\* move in g, the turn is with the first player from `turn` on, in cyclic
\* order, who has a legal move in g
C10_LoadTurn ==
    LET n == Cardinality({c \in Cells : ArgGrid[c] # None})
        movers == {p \in 1 .. Players : LegalIn(ArgGrid, n, p) # {}}
    IN  (last.op = "load_game" /\ last.err = "none" /\ movers # {}) =>
            /\ live.turn \in movers
            /\ \A r \in movers :
                  (r - last.turn) % Players >= (live.turn - last.turn) % Players

\* the argument g is a list of side rows of side cells each
WellShaped(g) == Len(g) = Side /\ \A i \in 1 .. Len(g) : Len(g[i]) = Side

\* some cell of the argument g is neither empty nor a player id
BadCell(g) ==
    \E i \in 1 .. Len(g) : \E j \in 1 .. Len(g[i]) :
        g[i][j] # None /\ g[i][j] \notin 1 .. Players

\* C11: load_game(turn, g) raises ValueError for every turn that is not a
\* player id in 1..players: 0 and the negative integers as well as the
\* values greater than players
C11_LoadRejectsBadTurn ==
    (last.op = "load_game" /\ last.turn \notin 1 .. Players) =>
        last.err = "ValueError"

\* C12: load_game(turn, g) raises ValueError whenever g is not side x side:
\* the number of rows differs from side, or some row's length does
C12_LoadRejectsBadShape ==
    (last.op = "load_game" /\ ~WellShaped(last.arg)) =>
        last.err = "ValueError"

C14_DoneIffNoMoves ==
    done(live) <=>
        \A p \in 1 .. Players : LegalIn(live.grid, live.num_moves, p) = {}

\* the turn holder has no legal move and another player has one: the game
\* is not done
C14_Witness ==
    /\ ~done(live)
    /\ LegalIn(live.grid, live.num_moves, live.turn) = {}
    /\ \E p \in 1 .. Players : LegalIn(live.grid, live.num_moves, p) # {}
    /\ \E c \in Cells : live.grid[c] = None

\* the number of cells of grid g owned by p
Owned(g, p) == Cardinality({c \in Cells : g[c] = p})

\* the players owning the most cells of grid g
TopOwners(g) ==
    {p \in 1 .. Players : \A q \in 1 .. Players : Owned(g, q) <= Owned(g, p)}

\* C15: in a done state reached by legal play from construction, outcome()
\* lists exactly the players who own the most cells of the whole grid, in
\* ascending order and without duplicates
C15_OutcomeIsTopOwners ==
    done(live) =>
        \A o \in {outcome(live)} :
            /\ o.err = "none"
            /\ {o.ret[i] : i \in 1 .. Len(o.ret)} = TopOwners(live.grid)
            /\ \A i, j \in 1 .. Len(o.ret) : i < j => o.ret[i] < o.ret[j]
            /\ Len(o.ret) = 1 <=> Cardinality(TopOwners(live.grid)) = 1

\* the 3 x 3 board is full after nine moves and the three players, with
\* three cells each, are all listed
C15_Witness ==
    /\ last.op = "apply_move"
    /\ done(live)
    /\ Players = 3
    /\ \A p \in 1 .. Players : Owned(live.grid, p) = 3
    /\ outcome(live).ret = <<1, 2, 3>>

\* C16: in every state reached by play and load_game, outcome() returns the
\* empty list iff the game is not done
C16_OutcomeEmptyIffNotDone ==
    \A o \in {outcome(live)} :
        /\ o.err = "none"
        /\ o.ret = <<>> <=> ~done(live)

\* a move has just ended the game with cells still empty, and outcome() names
\* a winner
C16_Witness ==
    /\ last.op = "apply_move"
    /\ done(live)
    /\ \E c \in Cells : live.grid[c] = None
    /\ Len(outcome(live).ret) >= 1

\* C17: in every state reached by construction, legal apply_move calls and
\* successful load_game calls, each cell of available_moves(p), for every
\* player p, is inside the board and piece_at of it is empty
C17_MovesAreEmptyCells ==
    \A p \in 1 .. Players :
        \A c \in possible_moves(live, p) :
            /\ c \in Cells
            /\ piece_at(live, c) = [ret |-> None, err |-> "none"]

\* the argument triples the constructor is to accept
ValidArgs(side, players, othello) ==
    /\ side >= 3
    /\ 2 <= players /\ players <= 9
    /\ players <= side
    /\ side % 2 = players % 2
    /\ othello => players = 2

C19_OthelloSetup ==
    (last.op = "construct" /\ last.err = "none" /\ Othello) =>
        LET h == Side \div 2 IN
        /\ Players = 2 /\ Side = 2 * h
        /\ {c \in Cells : piece_at(live, c).ret = 1} = {<<h - 1, h>>, <<h, h - 1>>}
        /\ {c \in Cells : piece_at(live, c).ret = 2} = {<<h - 1, h - 1>>, <<h, h>>}
        /\ Cardinality({c \in Cells : piece_at(live, c).ret # None}) = 4
        /\ live.turn = 1
        /\ available_moves(live) =
              {<<h - 2, h - 1>>, <<h - 1, h - 2>>, <<h, h + 1>>, <<h + 1, h>>}
        /\ players_av_moves(live, 1) =
              << <<h - 2, h - 1>>, <<h - 1, h - 2>>, <<h, h + 1>>, <<h + 1, h>> >>

\* the 8 x 8 othello game: player 1 may open at (2,3), (3,2), (4,5), (5,4)
C19_Witness ==
    /\ last.op = "construct" /\ last.err = "none"
    /\ Othello /\ Side = 8
    /\ available_moves(live) = {<<2, 3>>, <<3, 2>>, <<4, 5>>, <<5, 4>>}

\* C20: piece_at, legal_move and apply_move called with a position outside
\* [0, side) x [0, side) raise ValueError and leave the grid, the turn and
\* the move count as they were
C20_OutOfBoundsRaises ==
    [][((Called("piece_at") \/ Called("legal_move") \/ Called("apply_move"))
           /\ last'.pos \notin Cells) =>
         /\ last'.err = "ValueError"
         /\ heap'[LiveRef] = heap[LiveRef]
         /\ game'.turn = game.turn
         /\ game'.num_moves = game.num_moves
         /\ View(game)' = View(game)]_vars

\* after some moves, apply_move was called with a negative row, which a
\* Python list would index from its end, and raised
C20_Witness ==
    /\ last.op = "apply_move"
    /\ last.pos[1] < 0
    /\ last.err = "ValueError"
    /\ live.num_moves > 0

\* C21: simulate_moves(moves) raises ValueError whenever some move of the
\* list has a coordinate outside [0, side), wherever it sits in the list,
\* and then returns no instance
C21_SimulateRejectsOutOfBounds ==
    [][(Called("simulate_moves")
          /\ \E k \in 1 .. Len(last'.moves) : last'.moves[k] \notin Cells) =>
         /\ last'.err = "ValueError"
         /\ sim' = NoSim
         /\ heap'[SimRef] = NoGrid]_vars

\* the list was a legal move followed by a position whose column is side:
\* the call raised at its second move and returned nothing
C21_Witness ==
    /\ last.op = "simulate_moves"
    /\ Len(last.moves) = 2
    /\ last.moves[1] \in available_moves(live)
    /\ last.moves[2] = <<0, Side>>
    /\ last.err = "ValueError"
    /\ sim = NoSim

\* this step is a call of one of the three bots on the live game
BotCalled == Called("random_move") \/ Called("best_move") \/ Called("seer_move")

\* C22: a bot called for the turn holder on a game reached by legal play
\* leaves the live game unchanged when available_moves is empty, and
\* otherwise in the state of one apply_move(m) with m in the available_moves
\* before the call; its simulate_moves calls change nothing else
C22_BotAppliesOneLegalMove ==
    [][BotCalled =>
         /\ IF available_moves(live) = {}
            THEN last'.pos = NoMove /\ View(game)' = View(game)
            ELSE /\ last'.pos \in available_moves(live)
                 /\ View(game)' = apply_move(live, last'.pos)
         /\ sim' = sim /\ heap'[SimRef] = heap[SimRef]]_vars

\* seer_move was called on a finished game and did nothing
C22_Witness ==
    /\ last.op = "seer_move"
    /\ last.pos = NoMove
    /\ done(live)
    /\ live.num_moves = nops - 1

\* the number of cells player t owns after apply_move(m) on fields s
OwnedAfter(s, m, t) == Owned(apply_move(s, m).grid, t)

\* the candidates after which t owns the most cells
GreedyBest(s, t) ==
    UNION { {p[1] : p \in {q \in sc : \A q2 \in sc : q2[2] <= q[2]}} :
            sc \in {{<<m, OwnedAfter(s, m, t)>> : m \in available_moves(s)}} }

\* C23: the moves best_move can apply for the turn holder t are exactly the
\* candidates m of available_moves with the most t-owned cells in
\* simulate_moves([m])
C23_GreedyPicksMaximal ==
    available_moves(live) # {} =>
        \A B \in {best_move(heap, game, live.turn)} :
            /\ {r.pos : r \in B} = GreedyBest(live, live.turn)
            /\ \A r \in B : Fields(r.heap, r.obj) = apply_move(live, r.pos)

\* best_move has a choice between two maximal candidates and leaves a
\* candidate out that would give the mover fewer cells
C23_Witness ==
    /\ Cardinality({r.pos : r \in best_move(heap, game, live.turn)}) >= 2
    /\ \E m \in available_moves(live) : m \notin GreedyBest(live, live.turn)
    /\ last.op = "best_move"

\* the candidates of the turn holder after which the game is done
Enders(s) == {m \in available_moves(s) : done(apply_move(s, m))}

\* the first of a non-empty set of moves in ascending order
FirstMove(S) == CHOOSE m \in S : \A m2 \in S : m = m2 \/ MoveLess(m, m2)

\* C24: when a candidate of seer_move ends the game after one simulated ply,
\* seer_move applies the first such candidate in ascending order, whatever
\* the other candidates are worth, and the last simulation it made is that
\* candidate's: no later candidate is evaluated
C24_SeerTakesFirstEnder ==
    \A E \in {Enders(live)} :
        E # {} =>
            \A st \in {seer_scan(heap, game, live.turn)} :
                /\ st.best = <<FirstMove(E)>>
                /\ st.heap[StepRef] = apply_move(live, FirstMove(E)).grid
                /\ \A r \in pick_and_apply(st.heap, game, st.best) :
                      /\ r.pos = FirstMove(E)
                      /\ Fields(r.heap, r.obj) = apply_move(live, FirstMove(E))

\* seer_move has a candidate that ends the game, with candidates that do not
\* end it both before and after it in available_moves
C24_Witness ==
    /\ Enders(live) # {}
    /\ \E m \in available_moves(live) \ Enders(live) :
          MoveLess(m, FirstMove(Enders(live)))
    /\ \E m \in available_moves(live) \ Enders(live) :
          MoveLess(FirstMove(Enders(live)), m)
    /\ \E r \in seer_move(heap, game, live.turn) : r.pos = FirstMove(Enders(live))

\* the sum of f[x] over the set S
RECURSIVE SumOver(_, _)
SumOver(f, S) ==
    IF S = {} THEN 0
    ELSE LET x == CHOOSE y \in S : TRUE IN f[x] + SumOver(f, S \ {x})

\* for candidate m of player t on fields s: the number of replies, and the
\* sum over the replies r of the cells t owns after m and then r
Expectation(s, m, t) ==
    CHOOSE x \in
      { [len |-> Cardinality(available_moves(s1)),
         total |-> SumOver([r \in available_moves(s1) |->
                               Owned(apply_move(s1, r).grid, t)],
                           available_moves(s1))]
        : s1 \in {apply_move(s, m)} } : TRUE

\* the candidates with the largest total / len, compared as fractions
SeerBest(s, t) ==
    UNION { {p[1] : p \in {q \in sc : \A q2 \in sc :
                              q2[2].total * q[2].len <= q[2].total * q2[2].len}}
            : sc \in {{<<m, Expectation(s, m, t)>> : m \in available_moves(s)}} }

\* C25: when no candidate of seer_move ends the game, the moves it can apply
\* for the turn holder t are exactly the candidates m with the largest
\* (sum over the replies r to m of the t-owned cells after m, r) divided by
\* the number of replies, the quotients being compared exactly
C25_SeerMaximisesExpectation ==
    (available_moves(live) # {} /\ Enders(live) = {}) =>
        \A B \in {seer_move(heap, game, live.turn)} :
            /\ {r.pos : r \in B} = SeerBest(live, live.turn)
            /\ \A r \in B : Fields(r.heap, r.obj) = apply_move(live, r.pos)

\* seer_move prefers a candidate with the smaller total and the larger
\* quotient to a candidate with more replies
C25_Witness ==
    /\ available_moves(live) # {} /\ Enders(live) = {}
    /\ \E m \in SeerBest(live, live.turn) :
          \E m2 \in available_moves(live) \ SeerBest(live, live.turn) :
             Expectation(live, m2, live.turn).total
                 > Expectation(live, m, live.turn).total
    /\ \E r \in seer_move(heap, game, live.turn) : r.pos \in SeerBest(live, live.turn)

\* C26: the replies seer_move enumerates after a candidate of player t that
\* does not end the game are moves of a player other than t
C26_RepliesAreOpponents ==
    live.turn \notin seer_scan(heap, game, live.turn).repliers

\* C27: in every state reached by construction, legal apply_move calls and
\* load_game calls that return normally, every non-empty cell holds an owner
\* id in 1 .. Players
C27_OwnersAreInRange ==
    last.err = "none" =>
        \A p \in Cells : live.grid[p] # None => live.grid[p] \in 1 .. Players

\* the number of non-empty cells of the grid argument of the latest load_game
ArgCount == Cardinality({c \in Cells : ArgGrid[c] # None})

\* C28: after a load_game(turn, g) that returns normally, the move count is
\* the number of non-empty cells of g; in the non-othello variant the
\* opening rule then governs available_moves (the empty cells of the central
\* block are offered) iff that number is below players^2
C28_LoadRebuildsMoveCounter ==
    (last.op = "load_game" /\ last.err = "none") =>
        /\ live.num_moves = ArgCount
        /\ ~Othello =>
              /\ opening_phase(live) <=> ArgCount < Players * Players
              /\ ArgCount < Players * Players =>
                    available_moves(live) = {c \in CentralBlock : live.grid[c] = None}
              /\ ArgCount >= Players * Players =>
                    \A c \in available_moves(live) :
                        Outflanks(live.grid, c, live.turn)

\* a position with two pieces was loaded over a game with another move
\* count, and two cells of the central block are offered
C28_Witness ==
    /\ last.op = "load_game" /\ last.err = "none"
    /\ ~Othello /\ nops >= 2
    /\ ArgCount = 2
    /\ Cardinality(available_moves(live)) = 2

\* the player who made the i-th apply_move call of a game that player 1 opens
Mover(i) == IF i % 2 = 1 THEN 1 ELSE 2

\* the calls of the game so far that put a piece on cell c
CallsAt(c) == {i \in 1 .. Len(last.moves) : last.moves[i] = c}

\* C29: on a ReversiMock, after any sequence of apply_move calls on the
\* board, done holds iff a piece was put on (0,0) or (side-1,side-1); when
\* done, outcome is the owner of (0,0) alone (the player who moved there
\* last) if (0,0) is occupied and [1,2] otherwise; when not done, outcome is
\* empty; and the turn goes 1, 2, 1, 2 with every call
C29_MockEndsAtCorners ==
    /\ mock_done(live) <=> (CallsAt(<<0, 0>>) \cup CallsAt(<<Side - 1, Side - 1>>)) # {}
    /\ mock_outcome(live) =
          IF CallsAt(<<0, 0>>) # {}
          THEN <<Mover(CHOOSE i \in CallsAt(<<0, 0>>) :
                          \A j \in CallsAt(<<0, 0>>) : j <= i)>>
          ELSE IF CallsAt(<<Side - 1, Side - 1>>) # {} THEN <<1, 2>>
          ELSE <<>>
    /\ live.turn = Mover(nops + 1)
    /\ live.num_moves = nops

\* player 1 took (side-1,side-1) and player 2 then took (0,0): both corners
\* are occupied and player 2 alone wins
C29_Witness ==
    /\ last.moves = <<<<Side - 1, Side - 1>>, <<0, 0>>>>
    /\ mock_done(live)
    /\ mock_outcome(live) = <<2>>

\* C30: a ReversiStub is not done before four moves have been applied and is
\* done in every state in which four or more were applied; once done,
\* outcome is the owner of (0,1), or [1,2] if (0,1) is empty
C30_StubDoneFromFourMoves ==
    /\ nops < 4 => ~stub_done(live)
    /\ nops >= 4 => stub_done(live)
    /\ stub_done(live) =>
          stub_outcome(live) = IF live.grid[<<0, 1>>] = None THEN <<1, 2>>
                               ELSE <<live.grid[<<0, 1>>]>>

\* C31: in every state of a game played from construction that is not done,
\* turn is in 1 .. Players and its holder has an available move; so every
\* one-ply state seer_move examines that is not done has at least one reply,
\* and the average is never taken over zero replies
C31_TurnHolderCanMove ==
    /\ (live.turn \in 1 .. Players /\ available_moves(live) # {}) \/ done(live)
    /\ \A m \in available_moves(live) :
          \A step_one \in {apply_move(live, m)} :
             \/ /\ step_one.turn \in 1 .. Players
                /\ players_av_moves(step_one, step_one.turn) # <<>>
             \/ done(step_one)

\* the player after the mover had no move and was passed over; the game
\* goes on with a player who has one
C31_Witness ==
    /\ last.op = "apply_move"
    /\ ~done(live)
    /\ live.turn = last.turn
    /\ available_moves(live) # {}

\* the number of occupied cells of grid g
Occupied(g) == Cardinality({c \in Cells : g[c] # None})

\* C32: every legal apply_move of a game played from construction raises the
\* number of occupied cells by one, raises the move count by one and empties
\* no cell; the occupied cells never exceed side * side, and the game is done
\* when the board is full: a play ends after at most side * side moves
C32_EveryMoveFillsOneCell ==
    [][Called("apply_move") =>
         /\ Occupied(live'.grid) = Occupied(live.grid) + 1
         /\ live'.num_moves = live.num_moves + 1
         /\ \A c \in Cells : live.grid[c] # None => live'.grid[c] # None
         /\ ~done(live)
         /\ live'.num_moves <= Side * Side
         /\ Occupied(live'.grid) <= Side * Side
         /\ Occupied(live'.grid) = Side * Side => done(live')]_vars

\* a game has been played until the board was full, and is done
C32_Witness ==
    /\ last.op = "apply_move"
    /\ Occupied(live.grid) = Side * Side
    /\ live.num_moves = Side * Side
    /\ done(live)

\* C33: in the opening phase of a non-othello game (fewer than players^2
\* moves applied before the move) a legal apply_move changes exactly one
\* cell: an empty cell becomes the mover's and no piece is flipped, also
\* when the placed piece outflanks pieces of other players
C33_OpeningMovesFlipNothing ==
    [][(Called("apply_move") /\ ~Othello /\ live.num_moves < Players * Players) =>
         /\ \E pos \in available_moves(live) :
               /\ live.grid[pos] = None
               /\ live'.grid = [live.grid EXCEPT ![pos] = live.turn]
               /\ live'.board = [live.board EXCEPT ![pos] = live.turn]
         /\ last'.flips = 0]_vars

\* the fourth move of a three-player game: player 1, who also made the
\* first, has placed a piece in line with an own piece across a piece of
\* another player, and that piece is still the other player's
C33_Witness ==
    /\ last.op = "apply_move" /\ last.turn = 1 /\ last.flips = 0
    /\ ~Othello /\ Players = 3
    /\ live.num_moves = 4
    /\ \E c \in Cells : \E d \in Dir8 :
          live.grid[c] = 1 /\ RunLengths(live.grid, c, 1, d) # {}

\* the player who makes the k-th move when nobody is passed over
OpeningMover(k) == ((k - 1) % Players) + 1

\* C34: in a non-othello game played from construction, the k-th move for
\* k = 1 .. players^2 is made by player ((k-1) mod players) + 1, nobody being
\* passed over; all pieces lie in the central block, each player owning one
\* cell per move made; after players^2 moves the block is full, the cells
\* outside it are empty and every player owns exactly players cells
C34_OpeningFillsBlockInTurn ==
    (~Othello /\ live.num_moves <= Players * Players) =>
        /\ live.num_moves < Players * Players =>
              live.turn = OpeningMover(live.num_moves + 1)
        /\ last.op = "apply_move" => last.turn = OpeningMover(live.num_moves)
        /\ \A c \in Cells \ CentralBlock : live.grid[c] = None
        /\ \A p \in 1 .. Players :
              Owned(live.grid, p) =
                  Cardinality({k \in 1 .. live.num_moves : OpeningMover(k) = p})
        /\ live.num_moves = Players * Players =>
              /\ \A c \in CentralBlock : live.grid[c] # None
              /\ \A p \in 1 .. Players : Owned(live.grid, p) = Players

\* the ninth move of a three-player game on the 5 x 5 board has been made
C34_Witness ==
    /\ ~Othello /\ Players = 3 /\ Side = 5
    /\ last.op = "apply_move" /\ last.turn = 3
    /\ live.num_moves = Players * Players
    /\ \A c \in CentralBlock : live.grid[c] # None

\* C35: a load_game call that raises ValueError leaves the engine as it was:
\* grid, piece_at, turn, the move count and available_moves are the same
\* after the call as before it
C35_FailedLoadChangesNothing ==
    [][(Called("load_game") /\ last'.err = "ValueError") =>
         /\ live'.grid = live.grid
         /\ live'.turn = live.turn
         /\ live'.num_moves = live.num_moves
         /\ available_moves(live') = available_moves(live)]_vars

\* the latest step was the call op on the object of that name
CalledOn(name, op) ==
    /\ nops' = nops + 1
    /\ last'.op = (IF name = "game" THEN op ELSE name \o "." \o op)

\* C36: an object returned by simulate_moves shares no state with the
\* original or with another object returned by simulate_moves on it: an
\* apply_move or load_game on any of the three leaves grid, board, turn and
\* move count of the other two unchanged, and taking a second one leaves the
\* original and the first unchanged
C36_ClonesAreIndependent ==
    [][/\ (CalledOn("game", "apply_move") \/ CalledOn("game", "load_game")) =>
            /\ sim' = sim /\ (sim # NoSim => heap'[SimRef] = heap[SimRef])
            /\ sim2' = sim2 /\ (sim2 # NoSim => heap'[Sim2Ref] = heap[Sim2Ref])
       /\ (CalledOn("sim", "apply_move") \/ CalledOn("sim", "load_game")) =>
            /\ game' = game /\ heap'[LiveRef] = heap[LiveRef]
            /\ sim2' = sim2 /\ (sim2 # NoSim => heap'[Sim2Ref] = heap[Sim2Ref])
       /\ (CalledOn("sim2", "apply_move") \/ CalledOn("sim2", "load_game")) =>
            /\ game' = game /\ heap'[LiveRef] = heap[LiveRef]
            /\ sim' = sim /\ (sim # NoSim => heap'[SimRef] = heap[SimRef])
       /\ CalledOn("game", "simulate_moves2") =>
            /\ game' = game /\ heap'[LiveRef] = heap[LiveRef]
            /\ sim' = sim /\ (sim # NoSim => heap'[SimRef] = heap[SimRef])
       /\ CalledOn("game", "simulate_moves") =>
            /\ game' = game /\ heap'[LiveRef] = heap[LiveRef]]_vars

\* two objects were returned by simulate_moves on the same game, a move was
\* applied to the first, and the three grids differ from one another
C36_Witness ==
    /\ sim # NoSim /\ sim2 # NoSim
    /\ last.op = "sim.apply_move"
    /\ heap[SimRef] # heap[LiveRef]
    /\ heap[Sim2Ref] # heap[LiveRef]
    /\ heap[SimRef] # heap[Sim2Ref]

\* best_move(game, game.turn) and seer_move(game, game.turn), in the runs
\* played by these two bots alone
BestMoveOrder ==
    /\ nops < MaxOrderOps
    /\ \E r \in best_move(heap, game, game.turn) : BotReturns("best_move", r)

SeerMoveOrder ==
    /\ nops < MaxOrderOps
    /\ \E r \in seer_move(heap, game, game.turn) : BotReturns("seer_move", r)

NextOrder == BestMoveOrder \/ SeerMoveOrder

SpecOrder == InitBot /\ [][NextOrder]_vars

\* the elements of a sequence
Range(q) == {q[i] : i \in 1 .. Len(q)}

\* orders in which the candidates of a bot are evaluated: the ascending order
\* of available_moves, the orders that start it at another candidate, and
\* the descending order
Rotate(q, k) == [i \in 1 .. Len(q) |-> q[((i + k - 1) % Len(q)) + 1]]

EvaluationOrders(q) ==
    {Rotate(q, k) : k \in 0 .. Len(q) - 1}
        \cup {[i \in 1 .. Len(q) |-> q[Len(q) + 1 - i]]}

\* the moves best_move and seer_move may apply on the live game when their
\* loops take the candidates in the given order
BestIn(order) ==
    Range(best_loop([heap |-> heap, most |-> 0, best |-> <<>>],
                    game, live.turn, order, 1).best)

SeerIn(order) ==
    Range(seer_loop([heap |-> heap, highest |-> [num |-> 0, den |-> 0],
                     best |-> <<>>, repliers |-> {}],
                    game, live.turn, order, 1).best)

\* what the two bots may apply under each order of evaluation
Evaluations ==
    {[order |-> order, best |-> BestIn(order), seer |-> SeerIn(order)] :
        order \in EvaluationOrders(players_av_moves(live, live.turn))}

\* C37: the set of moves best_move and seer_move may apply in a position
\* does not depend on the order in which the candidates are evaluated
C37_OrderIndependent ==
    \A R \in {Evaluations} :
        \A r1, r2 \in R : r1.best = r2.best /\ r1.seer = r2.seer

\* C37 as it holds: the moves best_move may apply do not depend on the order
\* of evaluation, nor do those of seer_move when no candidate ends the game;
\* when candidates end the game, seer_move applies the one that comes first
\* in the order of evaluation, so the order matters when there are several
C37_OrderIndependentButEnders ==
    \A R \in {Evaluations}, E \in {Enders(live)} :
        \A r1, r2 \in R :
            /\ r1.best = r2.best
            /\ E = {} => r1.seer = r2.seer
            /\ E # {} =>
                  r1.seer = {r1.order[CHOOSE i \in 1 .. Len(r1.order) :
                                        /\ r1.order[i] \in E
                                        /\ \A j \in 1 .. i - 1 :
                                              r1.order[j] \notin E]}

\* two candidates end the game, and seer_move applies one of them or the
\* other according to the order of evaluation
C37_Witness ==
    /\ Cardinality(Enders(live)) >= 2
    /\ \E order \in EvaluationOrders(players_av_moves(live, live.turn)) :
          SeerIn(order) # SeerIn(players_av_moves(live, live.turn))
    /\ last.op = "best_move"

\* C38: in every state reached by construction, legal apply_move calls and
\* successful load_game calls, _grid and the Piece board agree on every
\* cell: empty in one iff empty in the other, and else the same owner
C38_GridAndBoardAgree ==
    last.err = "none" =>
        \A c \in Cells :
            /\ live.grid[c] = None <=> live.board[c] = None
            /\ live.grid[c] # None => live.board[c] = live.grid[c]

====
